---- MODULE Spec2Model ----
(***************************************************************************)
(* The kiwi-soluna worker.                                                 *)
(*                                                                         *)
(* Token-bucket rate limiter (class RateLimiter of src/unnamed/part_001):  *)
(* one limiter object, its bucket store, the runtime's clock and interval  *)
(* timers.  Every method of the class is synchronous (no await), so under  *)
(* the JavaScript run-to-completion semantics each call is one atomic      *)
(* step.                                                                   *)
(*                                                                         *)
(* Request handler (main of src/unnamed/part_000) and upstream provider    *)
(* (getSolunaData of src/src/providers/aladhan.ts): one step per stretch   *)
(* of code between two awaits.                                             *)
(*                                                                         *)
(* Numbers: the configurations are integers, so every token count the code *)
(* can store is an integer and times are integer milliseconds.             *)
(***************************************************************************)
EXTENDS Integers, FiniteSets, Sequences, TLC

\* ------------------------------------------------------------------ bounds

\* Number of clock advances in one behaviour.
MaxTicks == 2

\* ------------------------------------------------------------------ inputs

\* Client identifiers; the empty string is one of them.
Ids == {"", "1.2.3.4"}

\* Limiter configurations (tokensPerInterval, interval in ms, bucketSize).
Configs ==
  { [tokensPerInterval |-> 1, interval |-> 1000,   bucketSize |-> 2],
    [tokensPerInterval |-> 2, interval |-> 600000, bucketSize |-> 1] }

\* The configuration of the default rateLimiter instance.
Reference == [tokensPerInterval |-> 1, interval |-> 2000, bucketSize |-> 10]

\* Amounts (ms) by which the clock advances between two steps: one second,
\* and the five minutes of the staleness threshold.
Deltas == {1000, 300000}

\* Periods passed to startCleanup (60000 is the default argument).
Periods == {60000}

\* Periods for the runs about the sweep's lifecycle: the default and one a
\* caller chose, so that a timer can be told by its period.
LifecyclePeriods == {60000, 1000}

\* Configurations for the runs at the numeric boundary: a bucket of size 0
\* (the constructor accepts any number) and an ordinary one.
SkewConfigs ==
  { [tokensPerInterval |-> 1, interval |-> 1000, bucketSize |-> 0],
    [tokensPerInterval |-> 1, interval |-> 1000, bucketSize |-> 2] }

\* Amounts (ms) by which a clock adjustment sets Date.now() back.
BackDeltas == {1000}

\* Requests to the worker.  A pathname is the root or an API path with a
\* date; a query parameter is absent or has one of the values below.
Pathnames == {"/", "/api/11-01-2026"}
Addresses == {"", "Dhaka"}
MethodsFlags == {"true"}

\* What getClientIP reads from a request's headers.
ClientIPs == {"1.2.3.4"}

\* Characters of a method parameter, which the handler parses.
Digits == <<"0", "1", "2", "3", "4", "5", "6", "7", "8", "9">>

\* The decimal numeral of n, 0 <= n <= 99.
Decimal(n) ==
  IF n < 10 THEN <<Digits[n + 1]>>
  ELSE <<Digits[(n \div 10) + 1], Digits[(n % 10) + 1]>>

\* The largest method number written out as a request parameter; the
\* documented range is 0..23.
MaxMethodParam == 25

\* Values of the method parameter: the numerals 0..MaxMethodParam, and
\* strings that are not numerals (empty, negative, letters, a numeral
\* followed by a letter, a leading space, a leading zero, a fraction).
MethodParams ==
  { Decimal(n) : n \in 0..MaxMethodParam } \cup
  { << >>, <<"-", "1">>, <<"a", "b", "c">>, <<"5", "x">>, <<" ", "7">>,
    <<"0", "7">>, <<"1", ".", "5">> }

\* How one upstream attempt ends: fetch rejects, the status is not 2xx, the
\* body is not the expected JSON (response.json() rejects or a field read
\* throws), the JSON carries code != 200, or all is well.
Failures == {"networkError", "notOk", "badBody", "badCode"}

\* Hijri days of the month and the numeral the upstream sends for each
\* (two digits, as in "07").
HijriDays == 1..30
TwoDigits(n) == <<Digits[(n \div 10) + 1], Digits[(n % 10) + 1]>>

\* ---------------------------------------------------------------- helpers

Min(a, b) == IF a <= b THEN a ELSE b

\* Math.floor(a / b) and Math.ceil(a / b) for b > 0.
FloorDiv(a, b) == a \div b
CeilDiv(a, b) == -((-a) \div b)

\* Math.floor of a stored token count: counts are integers here.
MathFloor(x) == x

\* Map.set / Map.delete on the bucket store (a function on the present keys).
MapSet(B, k, v) == [x \in (DOMAIN B) \cup {k} |-> IF x = k THEN v ELSE B[x]]
MapRestrict(B, S) == [x \in S |-> B[x]]

\* ------------------------------------------------------------------ state

VARIABLES
  config,             \* this.config, immutable after construction
  now,                \* Date.now()
  ticks,              \* clock advances so far
  buckets,            \* this.buckets : identifier -> [tokens, lastRefill]
  cleanupIntervalId,  \* this.cleanupIntervalId, 0 for null
  timers,             \* the runtime's active interval timers
  ret,                \* the last query made and what it returned
  burst,              \* per identifier: its isAllowed calls at this instant
  win,                \* a time window and the admissions counted in it
  twin,               \* a second limiter given the same calls, never swept
  request,            \* the request the worker's handler is serving
  pc,                 \* where that handler stands
  upstream,           \* the upstream fetches made for that request, in order
  lastError,          \* getSolunaData's lastError
  response            \* the Response the handler returned

\* The worker's handler (src/unnamed/part_000, src/src/providers/aladhan.ts).
worker == <<request, pc, upstream, lastError, response>>

vars == <<config, now, ticks, buckets, cleanupIntervalId, timers, ret, burst,
          win, twin, worker>>

staleThreshold == 5 * 60 * 1000

\* The last query made: which one, for whom, its answer and when it was asked;
\* for a reset time, follow is what the next isAllowed call for that identifier
\* returned ("none" until it is made) and followAt when that call was made.
Ret(op, i, value, at) ==
  [op |-> op, identifier |-> i, value |-> value, at |-> at,
   follow |-> "none", followAt |-> 0]

NoRet == Ret("none", "", 0, 0)

\* The recorded answer after a step that is not a query, taken at time t: a
\* reset time r > 0 asked at q stays on record until q + 1000 * r has passed
\* or its identifier has called isAllowed; any other answer is on record only
\* until the next step.
Kept(r, t) ==
  IF /\ r.op = "getResetTimeSeconds"
     /\ r.value > 0
     /\ r.follow = "none"
     /\ r.at + 1000 * r.value >= t
  THEN r
  ELSE NoRet

\* What one identifier's isAllowed calls at the current instant returned:
\* called (one was made), admitted (how many returned true), denied (one
\* returned false), late (one returned true after one returned false), avail
\* (the tokens the first call found after its refill; bucketSize when it
\* created the bucket), created (the first call created the bucket); and of
\* its last call at an earlier instant: prevAt (when; -1 for never) and
\* prevDenied (it returned false).
NoBurst(at, denied) ==
  [called |-> FALSE, admitted |-> 0, denied |-> FALSE, late |-> FALSE,
   avail |-> 0, created |-> FALSE, prevAt |-> at, prevDenied |-> denied]

\* The window being watched: the admissions of one identifier counted from
\* the instant start on (every admission made at that instant included).
NoWindow == [open |-> FALSE, identifier |-> "", start |-> 0, count |-> 0]

\* The second limiter: paired (it is being run), its bucket store, and agreed
\* (each of its isAllowed verdicts so far equalled the first limiter's).
NoTwin == [paired |-> FALSE, buckets |-> << >>, agreed |-> TRUE]
NewTwin == [paired |-> TRUE, buckets |-> << >>, agreed |-> TRUE]

\* The worker before its first request.
NoRequest == [pathname |-> "", searchParams |-> << >>, ip |-> ""]
NoError == [isNull |-> TRUE, message |-> ""]
NoResponse == [status |-> 0]

\* ---------------------------------------------------------------- methods

\* cleanup that spares the buckets holding no token.
cleanupSparesExhausted(B, t) ==
  MapRestrict(B, {k \in DOMAIN B :
                    ~(t - B[k].lastRefill > staleThreshold /\ B[k].tokens >= 1)})

\* cleanup whose threshold is one refill interval.
cleanupEager(B, t) ==
  MapRestrict(B, {k \in DOMAIN B : ~(t - B[k].lastRefill > config.interval)})

\* cleanup that empties a stale bucket and keeps it in the store.
cleanupKeepsEmpty(B, t) ==
  [k \in DOMAIN B |->
     IF t - B[k].lastRefill > staleThreshold
     THEN [tokens |-> 0, lastRefill |-> B[k].lastRefill]
     ELSE B[k]]

\* cleanup with the comparison >= in place of >.
cleanupAtThreshold(B, t) ==
  MapRestrict(B, {k \in DOMAIN B : ~(t - B[k].lastRefill >= staleThreshold)})

\* RateLimiter.cleanup: drop every bucket idle for more than the threshold.
cleanup(B, t) ==
  MapRestrict(B, {k \in DOMAIN B : ~(t - B[k].lastRefill > staleThreshold)})

\* refill without the Math.min clamp.
refillNoClamp(bucket, t) ==
  LET elapsed     == t - bucket.lastRefill
      tokensToAdd == FloorDiv(elapsed, config.interval) * config.tokensPerInterval
  IN bucket.tokens + tokensToAdd

\* refill that counts a started interval as a whole one (Math.ceil).
refillCeil(bucket, t) ==
  LET elapsed     == t - bucket.lastRefill
      tokensToAdd == CeilDiv(elapsed, config.interval) * config.tokensPerInterval
  IN Min(config.bucketSize, bucket.tokens + tokensToAdd)

\* The refill of isAllowed: the tokens of an existing bucket at time t.
refill(bucket, t) ==
  LET elapsed     == t - bucket.lastRefill
      tokensToAdd == FloorDiv(elapsed, config.interval) * config.tokensPerInterval
  IN Min(config.bucketSize, bucket.tokens + tokensToAdd)

\* isAllowed that creates the bucket full, without charging the request.
isAllowedFullOnCreate(B, t, identifier) ==
  IF identifier \notin DOMAIN B
  THEN [buckets |-> MapSet(B, identifier,
                           [tokens |-> config.bucketSize, lastRefill |-> t]),
        allowed |-> TRUE]
  ELSE LET refilled == refill(B[identifier], t)
       IN IF refilled >= 1
          THEN [buckets |-> MapSet(B, identifier,
                                   [tokens |-> refilled - 1, lastRefill |-> t]),
                allowed |-> TRUE]
          ELSE [buckets |-> MapSet(B, identifier,
                                   [tokens |-> refilled, lastRefill |-> t]),
                allowed |-> FALSE]

\* isAllowed that admits on tokens >= 0 (an off-by-one in the check).
isAllowedOffByOne(B, t, identifier) ==
  IF identifier \notin DOMAIN B
  THEN [buckets |-> MapSet(B, identifier,
                           [tokens |-> config.bucketSize - 1, lastRefill |-> t]),
        allowed |-> TRUE]
  ELSE LET refilled == refill(B[identifier], t)
       IN IF refilled >= 0
          THEN [buckets |-> MapSet(B, identifier,
                                   [tokens |-> refilled - 1, lastRefill |-> t]),
                allowed |-> TRUE]
          ELSE [buckets |-> MapSet(B, identifier,
                                   [tokens |-> refilled, lastRefill |-> t]),
                allowed |-> FALSE]

\* isAllowed that admits without writing the decrement back (a lost update).
isAllowedLostUpdate(B, t, identifier) ==
  IF identifier \notin DOMAIN B
  THEN [buckets |-> MapSet(B, identifier,
                           [tokens |-> config.bucketSize - 1, lastRefill |-> t]),
        allowed |-> TRUE]
  ELSE LET refilled == refill(B[identifier], t)
       IN [buckets |-> MapSet(B, identifier,
                              [tokens |-> refilled, lastRefill |-> t]),
           allowed |-> refilled >= 1]

\* isAllowed whose store entries all alias one bucket object.
isAllowedSharedBucket(B, t, identifier) ==
  LET new == IF identifier \notin DOMAIN B
             THEN [tokens |-> config.bucketSize - 1, lastRefill |-> t]
             ELSE LET refilled == refill(B[identifier], t)
                  IN [tokens |-> IF refilled >= 1 THEN refilled - 1 ELSE refilled,
                      lastRefill |-> t]
  IN [buckets |-> [x \in (DOMAIN B) \cup {identifier} |-> new],
      allowed |-> identifier \notin DOMAIN B \/ refill(B[identifier], t) >= 1]

\* isAllowed that never moves the lastRefill of an existing bucket, so the
\* same elapsed time is credited again by every call.
isAllowedNoStamp(B, t, identifier) ==
  IF identifier \notin DOMAIN B
  THEN [buckets |-> MapSet(B, identifier,
                           [tokens |-> config.bucketSize - 1, lastRefill |-> t]),
        allowed |-> TRUE]
  ELSE LET refilled == refill(B[identifier], t)
       IN [buckets |-> MapSet(B, identifier,
                              [tokens |-> IF refilled >= 1 THEN refilled - 1
                                          ELSE refilled,
                               lastRefill |-> B[identifier].lastRefill]),
           allowed |-> refilled >= 1]

\* isAllowed that moves lastRefill only when the refill added a token.
isAllowedKeepsFraction(B, t, identifier) ==
  IF identifier \notin DOMAIN B
  THEN [buckets |-> MapSet(B, identifier,
                           [tokens |-> config.bucketSize - 1, lastRefill |-> t]),
        allowed |-> TRUE]
  ELSE LET refilled == refill(B[identifier], t)
           added == FloorDiv(t - B[identifier].lastRefill, config.interval) > 0
       IN [buckets |-> MapSet(B, identifier,
                              [tokens |-> IF refilled >= 1 THEN refilled - 1
                                          ELSE refilled,
                               lastRefill |-> IF added THEN t
                                              ELSE B[identifier].lastRefill]),
           allowed |-> refilled >= 1]

\* isAllowed that stamps a new bucket with time 0 instead of the clock.
isAllowedEpochOnCreate(B, t, identifier) ==
  IF identifier \notin DOMAIN B
  THEN [buckets |-> MapSet(B, identifier,
                           [tokens |-> config.bucketSize - 1, lastRefill |-> 0]),
        allowed |-> TRUE]
  ELSE LET refilled == refill(B[identifier], t)
       IN [buckets |-> MapSet(B, identifier,
                              [tokens |-> IF refilled >= 1 THEN refilled - 1
                                          ELSE refilled,
                               lastRefill |-> t]),
           allowed |-> refilled >= 1]

\* isAllowed that stamps lastRefill only when it admits.
isAllowedStampsOnAdmit(B, t, identifier) ==
  IF identifier \notin DOMAIN B
  THEN [buckets |-> MapSet(B, identifier,
                           [tokens |-> config.bucketSize - 1, lastRefill |-> t]),
        allowed |-> TRUE]
  ELSE LET refilled == refill(B[identifier], t)
       IN IF refilled >= 1
          THEN [buckets |-> MapSet(B, identifier,
                                   [tokens |-> refilled - 1, lastRefill |-> t]),
                allowed |-> TRUE]
          ELSE [buckets |-> B, allowed |-> FALSE]

\* RateLimiter.isAllowed: the store after the call and the verdict.
isAllowed(B, t, identifier) ==
  IF identifier \notin DOMAIN B
  THEN [buckets |-> MapSet(B, identifier,
                           [tokens |-> config.bucketSize - 1, lastRefill |-> t]),
        allowed |-> TRUE]
  ELSE LET refilled == refill(B[identifier], t)
       IN IF refilled >= 1
          THEN [buckets |-> MapSet(B, identifier,
                                   [tokens |-> refilled - 1, lastRefill |-> t]),
                allowed |-> TRUE]
          ELSE [buckets |-> MapSet(B, identifier,
                                   [tokens |-> refilled, lastRefill |-> t]),
                allowed |-> FALSE]

\* getRemainingTokens that refills the bucket before it answers.
getRemainingTokensRefilling(B, identifier) ==
  IF identifier \notin DOMAIN B
  THEN [buckets |-> B, value |-> config.bucketSize]
  ELSE LET refilled == refill(B[identifier], now)
       IN [buckets |-> MapSet(B, identifier,
                              [tokens |-> refilled, lastRefill |-> now]),
           value   |-> MathFloor(refilled)]

\* getRemainingTokens that counts the tokens of the coming refill as well.
getRemainingTokensAhead(B, identifier) ==
  [buckets |-> B,
   value   |-> IF identifier \notin DOMAIN B
               THEN config.bucketSize
               ELSE Min(config.bucketSize,
                        MathFloor(B[identifier].tokens) + config.tokensPerInterval)]

\* RateLimiter.getRemainingTokens: the store after the call and the answer.
getRemainingTokens(B, identifier) ==
  [buckets |-> B,
   value   |-> IF identifier \notin DOMAIN B
               THEN config.bucketSize
               ELSE MathFloor(B[identifier].tokens)]

\* The arithmetic of getResetTimeSeconds for a bucket holding tokens < 1:
\* ceil(ceil((1 - tokens) / tokensPerInterval * interval) / 1000).  The code
\* computes it in doubles; for the configurations used here (1/1 * 1000,
\* 1/2 * 600000, 1/1 * 2000) the double results are exact.
resetTime(cfg, tokens) ==
  LET tokensNeeded == 1 - tokens
      msUntilToken == CeilDiv(tokensNeeded * cfg.interval, cfg.tokensPerInterval)
  IN CeilDiv(msUntilToken, 1000)

\* getResetTimeSeconds that answers 0 on tokens >= 0 (an off-by-one).
getResetTimeSecondsOffByOne(B, identifier) ==
  [buckets |-> B,
   value   |-> IF identifier \notin DOMAIN B \/ B[identifier].tokens >= 0
               THEN 0
               ELSE resetTime(config, B[identifier].tokens)]

\* RateLimiter.getResetTimeSeconds: the store after the call and the answer.
getResetTimeSeconds(B, identifier) ==
  [buckets |-> B,
   value   |-> IF identifier \notin DOMAIN B \/ B[identifier].tokens >= 1
               THEN 0
               ELSE resetTime(config, B[identifier].tokens)]

\* setInterval: the handle of a new timer (the smallest one not in use).
NewHandle(T) == CHOOSE h \in 1..(Cardinality(T) + 1) : \A x \in T : x.id # h

\* ------------------------------------------------------------------ steps

\* A limiter constructed with one of the configurations C, before any call;
\* no window is being watched and the worker has served no request.
Constructed(C) ==
  /\ config \in C
  /\ now = 0
  /\ ticks = 0
  /\ buckets = << >>
  /\ cleanupIntervalId = 0
  /\ timers = {}
  /\ ret = NoRet
  /\ burst = [i \in Ids |-> NoBurst(-1, FALSE)]
  /\ win = NoWindow
  /\ request = NoRequest
  /\ pc = "idle"
  /\ upstream = << >>
  /\ lastError = NoError
  /\ response = NoResponse

\* One limiter alone.
InitWith(C) == Constructed(C) /\ twin = NoTwin

Init == InitWith(Configs)

\* A request for identifier i reaches isAllowed.  (An admission beyond the
\* capacity is recorded once; the guard stops the count there.)
IsAllowed(i) ==
  /\ burst[i].admitted <= config.bucketSize
  /\ UNCHANGED <<config, now, ticks, cleanupIntervalId, timers, worker>>
  /\ LET r == isAllowed(buckets, now, i)
         b == burst[i]
         one == IF r.allowed THEN 1 ELSE 0
     IN /\ win' = IF win.open /\ win.identifier = i
                  THEN [win EXCEPT !.count = @ + one]
                  ELSE win
        /\ ret' = IF /\ ret.op = "getResetTimeSeconds"
                     /\ ret.identifier = i
                     /\ ret.follow = "none"
                  THEN [ret EXCEPT !.follow = IF r.allowed THEN "true" ELSE "false",
                                   !.followAt = now]
                  ELSE Kept(ret, now)
        /\ burst' = [burst EXCEPT ![i] =
             [called     |-> TRUE,
              admitted   |-> b.admitted + one,
              denied     |-> b.denied \/ ~r.allowed,
              late       |-> b.late \/ (b.denied /\ r.allowed),
              avail      |-> IF b.called THEN b.avail
                             ELSE IF i \in DOMAIN buckets THEN refill(buckets[i], now)
                             ELSE config.bucketSize,
              created    |-> IF b.called THEN b.created ELSE i \notin DOMAIN buckets,
              prevAt     |-> b.prevAt,
              prevDenied |-> b.prevDenied]]
        /\ twin' = IF twin.paired
                   THEN LET s == isAllowed(twin.buckets, now, i)
                        IN [paired |-> TRUE, buckets |-> s.buckets,
                            agreed |-> twin.agreed /\ (s.allowed = r.allowed)]
                   ELSE twin
        /\ buckets' = r.buckets

GetRemainingTokens(i) ==
  /\ UNCHANGED <<config, now, ticks, cleanupIntervalId, timers, burst, win, twin,
               worker>>
  /\ LET r == getRemainingTokens(buckets, i)
     IN /\ ret' = Ret("getRemainingTokens", i, r.value, now)
        /\ buckets' = r.buckets

GetResetTimeSeconds(i) ==
  /\ UNCHANGED <<config, now, ticks, cleanupIntervalId, timers, burst, win, twin,
               worker>>
  /\ LET r == getResetTimeSeconds(buckets, i)
     IN /\ ret' = Ret("getResetTimeSeconds", i, r.value, now)
        /\ buckets' = r.buckets

\* startCleanup without the guard on cleanupIntervalId: a second call sets up
\* a second timer and forgets the first.
StartCleanupNoGuard(intervalMs) ==
  /\ LET h == NewHandle(timers)
     IN /\ timers' = timers \cup {[id |-> h, intervalMs |-> intervalMs]}
        /\ cleanupIntervalId' = h
  /\ ret' = Kept(ret, now)
  /\ UNCHANGED <<config, now, ticks, buckets, burst, win, twin,
               worker>>

\* RateLimiter.startCleanup(intervalMs).
StartCleanup(intervalMs) ==
  /\ IF cleanupIntervalId # 0
     THEN UNCHANGED <<cleanupIntervalId, timers>>
     ELSE LET h == NewHandle(timers)
          IN /\ timers' = timers \cup {[id |-> h, intervalMs |-> intervalMs]}
             /\ cleanupIntervalId' = h
  /\ ret' = Kept(ret, now)
  /\ UNCHANGED <<config, now, ticks, buckets, burst, win, twin,
               worker>>

\* stopCleanup that forgets the handle without clearInterval.
StopCleanupLeaksTimer ==
  /\ cleanupIntervalId' = 0
  /\ timers' = timers
  /\ ret' = Kept(ret, now)
  /\ UNCHANGED <<config, now, ticks, buckets, burst, win, twin,
               worker>>

\* RateLimiter.stopCleanup().
StopCleanup ==
  /\ IF cleanupIntervalId # 0
     THEN /\ timers' = {x \in timers : x.id # cleanupIntervalId}
          /\ cleanupIntervalId' = 0
     ELSE UNCHANGED <<cleanupIntervalId, timers>>
  /\ ret' = Kept(ret, now)
  /\ UNCHANGED <<config, now, ticks, buckets, burst, win, twin,
               worker>>

\* An active interval timer fires and its callback runs one sweep pass.  The
\* runtime may run the callback late by any amount.
TimerFire(x) ==
  /\ x \in timers
  /\ buckets' = cleanup(buckets, now)
  /\ ret' = Kept(ret, now)
  /\ UNCHANGED <<config, now, ticks, cleanupIntervalId, timers, burst, win, twin,
               worker>>

\* The clock advances by d ms.
Tick(d) ==
  /\ ticks < MaxTicks
  /\ now' = now + d
  /\ ticks' = ticks + 1
  /\ burst' = [i \in Ids |->
                 IF burst[i].called
                 THEN NoBurst(now, burst[i].denied /\ ~burst[i].late)
                 ELSE burst[i]]
  /\ ret' = Kept(ret, now + d)
  /\ UNCHANGED <<config, buckets, cleanupIntervalId, timers, win, twin,
               worker>>

Next ==
  \/ \E i \in Ids : IsAllowed(i)
  \/ \E i \in Ids : GetRemainingTokens(i)
  \/ \E i \in Ids : GetResetTimeSeconds(i)
  \/ \E p \in Periods : StartCleanup(p)
  \/ StopCleanup
  \/ \E x \in timers : TimerFire(x)
  \/ \E d \in Deltas : Tick(d)

Spec == Init /\ [][Next]_vars

\* ------------------------------------------------- the sweep's lifecycle

\* The limiter driven by requests and by callers that start and stop the
\* sweep with either period.
NextLifecycle ==
  \/ \E i \in Ids : IsAllowed(i)
  \/ \E p \in LifecyclePeriods : StartCleanup(p)
  \/ StopCleanup
  \/ \E x \in timers : TimerFire(x)
  \/ \E d \in Deltas : Tick(d)

SpecLifecycle == Init /\ [][NextLifecycle]_vars

\* The same with the runtime's promise about setInterval: an active timer
\* whose callback has something to do does not wait forever.
SpecLifecycleFair ==
  SpecLifecycle /\ WF_vars(\E x \in timers : TimerFire(x))

\* ------------------------------------------------ the numeric boundary

\* Date.now() is the wall clock: an adjustment can set it back.
ClockBack(d) ==
  /\ ticks < MaxTicks
  /\ now - d >= 0
  /\ now' = now - d
  /\ ticks' = ticks + 1
  /\ burst' = [i \in Ids |->
                IF burst[i].called
                THEN NoBurst(now, burst[i].denied /\ ~burst[i].late)
                ELSE burst[i]]
  /\ ret' = Kept(ret, now - d)
  /\ UNCHANGED <<config, buckets, cleanupIntervalId, timers, win, twin,
               worker>>

InitSkew == InitWith(SkewConfigs)

\* The limiter with a bucket size of 0 allowed and a clock that can step back.
NextSkew ==
  \/ \E i \in Ids : IsAllowed(i)
  \/ \E i \in Ids : GetResetTimeSeconds(i)
  \/ \E d \in Deltas : Tick(d)
  \/ \E d \in BackDeltas : ClockBack(d)

SpecSkew == InitSkew /\ [][NextSkew]_vars

\* ------------------------------------------- the reference configuration

\* The identifier whose admissions are counted.
RefIds == {"1.2.3.4"}

\* Clock advances (ms) for these runs: half an interval, one interval, the
\* minute of the stated rate and the staleness threshold.
RefDeltas == {1000, 2000, 60000, 300000}

\* A window opens for identifier i at the current instant, before any of
\* i's calls at this instant, so that it counts them all.
OpenWindow(i) ==
  /\ ~win.open
  /\ ~burst[i].called
  /\ win' = [open |-> TRUE, identifier |-> i, start |-> now, count |-> 0]
  /\ UNCHANGED <<config, now, ticks, buckets, cleanupIntervalId, timers, ret,
                 burst, twin, worker>>

InitRef == InitWith({Reference})

\* The default rateLimiter instance under requests of one client, with the
\* sweep running or not.
NextRef ==
  \/ \E i \in RefIds : IsAllowed(i)
  \/ \E i \in RefIds : OpenWindow(i)
  \/ \E p \in Periods : StartCleanup(p)
  \/ \E x \in timers : TimerFire(x)
  \/ \E d \in RefDeltas : Tick(d)

SpecRef == InitRef /\ [][NextRef]_vars

\* Two rateLimiter instances constructed alike and given the same isAllowed
\* calls at the same times; the sweep runs on the first one only.
InitTwin == Constructed({Reference}) /\ twin = NewTwin

NextTwin ==
  \/ \E i \in RefIds : IsAllowed(i)
  \/ \E p \in Periods : StartCleanup(p)
  \/ \E x \in timers : TimerFire(x)
  \/ \E d \in RefDeltas : Tick(d)

SpecTwin == InitTwin /\ [][NextTwin]_vars

\* ------------------------------------------------------------ the worker

\* The keys of CALCULATION_METHODS (src/src/types.ts): 6 is not one of them.
CALCULATION_METHODS == (0..5) \cup (7..23)

BASE_URLS ==
  << "https://api.aladhan.com/v1/timingsByAddress",
     "https://aladhan.api.islamic.network/v1/timingsByAddress",
     "https://aladhan.api.alislam.ru/v1/timingsByAddress" >>

\* url.searchParams.get(name) ?? default: the default replaces an absent
\* parameter only, never an empty one.
searchParamsGet(searchParams, name, default) ==
  IF name \in DOMAIN searchParams THEN searchParams[name] ELSE default

\* The value of a string of digits.
RECURSIVE DigitsValue(_)
DigitsValue(p) ==
  IF p = << >> THEN 0
  ELSE 10 * DigitsValue(SubSeq(p, 1, Len(p) - 1))
       + (CHOOSE v \in 0..9 : Digits[v + 1] = p[Len(p)])

\* The length of the longest prefix of s made of characters of C.
PrefixLen(s, C) ==
  CHOOSE k \in 0..Len(s) :
    /\ \A j \in 1..k : s[j] \in C
    /\ k = Len(s) \/ s[k + 1] \notin C

\* parseInt(s, 10): leading white space is skipped, a sign is read, then
\* the longest run of digits; what follows is ignored; no digit gives NaN.
parseInt(s) ==
  LET t == SubSeq(s, PrefixLen(s, {" "}) + 1, Len(s))
      signed == t # << >> /\ t[1] \in {"-", "+"}
      u == IF signed THEN Tail(t) ELSE t
      n == PrefixLen(u, {Digits[j] : j \in 1..10})
      v == DigitsValue(SubSeq(u, 1, n))
  IN IF n = 0 THEN [isNaN |-> TRUE, value |-> 0]
     ELSE [isNaN |-> FALSE, value |-> IF signed /\ t[1] = "-" THEN -v ELSE v]

\* method in CALCULATION_METHODS, for the number parseInt returned.
InMethods(method) == ~method.isNaN /\ method.value \in CALCULATION_METHODS

\* pathname.match(/^\/api\/(\d{2}-\d{2}-\d{4})$/) with getTodayDate() as the
\* fallback, on the pathnames used here.
apiDate(pathname) ==
  IF pathname = "/api/11-01-2026" THEN "11-01-2026" ELSE "today"

\* calculateMoonPhase with strict comparisons (each range ends a day early).
calculateMoonPhaseStrict(hijriDay) ==
  [phase |-> IF hijriDay < 4 THEN "New Moon"
             ELSE IF hijriDay < 11 THEN "First Quarter"
             ELSE IF hijriDay < 18 THEN "Full Moon"
             ELSE IF hijriDay < 25 THEN "Last Quarter"
             ELSE "New Moon",
   hijriDay |-> hijriDay]

\* calculateMoonPhase(hijriDay).
calculateMoonPhase(hijriDay) ==
  [phase |-> IF hijriDay <= 4 THEN "New Moon"
             ELSE IF hijriDay <= 11 THEN "First Quarter"
             ELSE IF hijriDay <= 18 THEN "Full Moon"
             ELSE IF hijriDay <= 25 THEN "Last Quarter"
             ELSE "New Moon",
   hijriDay |-> hijriDay]

\* createResponse and the landing page's Response.
createResponse(body, status, contentType) ==
  [status |-> status, contentType |-> contentType, body |-> body]

\* The message of the error an attempt ends with.
ErrorOf(outcome) ==
  [isNull  |-> FALSE,
   message |-> CASE outcome = "networkError" -> "fetch failed"
                 [] outcome = "notOk"        -> "AlAdhan API error"
                 [] outcome = "badBody"      -> "Unexpected token"
                 [] outcome = "badCode"      -> "AlAdhan API returned error"]

\* The fetch getSolunaData issues to the k-th base URL; outcome is how it
\* ended and day the Hijri day numeral of the body it brought, if any.
Fetch(k, params) ==
  [url |-> [base |-> BASE_URLS[k], date |-> params.date,
            address |-> params.address, method |-> params.method],
   outcome |-> "pending", day |-> << >>]

\* main up to its first await: the Response it returns at once, or the
\* first upstream fetch of getSolunaData in flight.
main(req) ==
  LET address == searchParamsGet(req.searchParams, "address", "London")
      methodParam == searchParamsGet(req.searchParams, "method", <<"1">>)
      showMethods == searchParamsGet(req.searchParams, "methods", "")
      date == apiDate(req.pathname)
      method == parseInt(methodParam)
      json == "application/json"
      Returned(r) == [pc |-> "responded", upstream |-> << >>, response |-> r]
  IN IF showMethods = "true"
     THEN Returned(createResponse([kind |-> "methods"], 200, json))
     ELSE IF req.pathname = "/" /\ address = ""
     THEN Returned(createResponse([kind |-> "landing"], 200, "text/html"))
     ELSE IF address = ""
     THEN Returned(createResponse(
            [kind |-> "error", status |-> 400,
             error |-> "Missing required parameter: address"], 400, json))
     ELSE IF ~InMethods(method)
     THEN Returned(createResponse(
            [kind |-> "error", status |-> 400, error |-> "Invalid method"],
            400, json))
     ELSE [pc |-> "fetching",
           upstream |-> <<Fetch(1, [address |-> address, method |-> method.value,
                                    date |-> date])>>,
           response |-> NoResponse]

\* The catch block that keeps the first error instead of the latest.
caughtFirst(le, err) == IF le.isNull THEN err ELSE le

\* getSolunaData's catch block: lastError = err.
caught(le, err) == err

\* A throw of the generic error whatever the attempts ended with.
thrownGeneric(le) ==
  [isNull |-> FALSE, message |-> "All AlAdhan API endpoints failed"]

\* throw lastError || new Error('All AlAdhan API endpoints failed').
thrown(le) ==
  IF le.isNull
  THEN [isNull |-> FALSE, message |-> "All AlAdhan API endpoints failed"]
  ELSE le

\* getSolunaData from the moment the fetch in flight (the last of log) ends
\* with outcome (day is the Hijri day numeral of a good body) up to the next
\* await or to main's return: a good attempt returns the data, which main
\* sends with status 200; a failed one is caught and the next base URL is
\* fetched; after the last one lastError is thrown and main answers 503.
getSolunaData(log, le, outcome, day) ==
  LET k == Len(log)
      ended == [log EXCEPT ![k].outcome = outcome, ![k].day = day]
      err == caught(le, ErrorOf(outcome))
      json == "application/json"
  IN IF outcome = "ok"
     THEN [pc |-> "responded", upstream |-> ended, lastError |-> le,
           response |-> createResponse(
             [kind |-> "soluna",
              moon |-> calculateMoonPhase(parseInt(day).value)], 200, json)]
     ELSE IF k < Len(BASE_URLS)
     THEN [pc |-> "fetching",
           upstream |-> Append(ended, Fetch(k + 1, log[1].url)),
           lastError |-> err, response |-> NoResponse]
     ELSE [pc |-> "responded", upstream |-> ended, lastError |-> err,
           response |-> createResponse(
             [kind |-> "error", status |-> 503, error |-> thrown(err).message],
             503, json)]

\* The query strings: each parameter absent or with one of its values.
Param(name, values) == { << >> } \cup { [x \in {name} |-> v] : v \in values }

Requests ==
  { [pathname |-> p, searchParams |-> a @@ m @@ s, ip |-> i] :
      p \in Pathnames, a \in Param("address", Addresses),
      m \in Param("method", MethodParams), s \in Param("methods", MethodsFlags),
      i \in ClientIPs }

\* The runtime calls main with a request.  The handler keeps nothing from
\* one request to the next (no module-level variable is written), so one
\* request per behaviour covers them all.
Main(req) ==
  /\ pc = "idle"
  /\ request' = req
  /\ lastError' = NoError
  /\ LET r == main(req)
     IN /\ pc' = r.pc
        /\ upstream' = r.upstream
        /\ response' = r.response
  /\ UNCHANGED <<config, now, ticks, buckets, cleanupIntervalId, timers, ret,
                 burst, win, twin>>

\* The upstream fetch in flight ends and getSolunaData runs on.
GetSolunaData(outcome, day) ==
  /\ pc = "fetching"
  /\ LET r == getSolunaData(upstream, lastError, outcome, day)
     IN /\ pc' = r.pc
        /\ upstream' = r.upstream
        /\ lastError' = r.lastError
        /\ response' = r.response
  /\ UNCHANGED <<config, now, ticks, buckets, cleanupIntervalId, timers, ret,
                 burst, win, twin, request>>

InitWorker == InitWith({Reference})

NextWorker ==
  \/ pc = "idle" /\ \E req \in Requests : Main(req)
  \/ \E o \in Failures : GetSolunaData(o, << >>)
  \/ \E d \in HijriDays : GetSolunaData("ok", TwoDigits(d))

SpecWorker == InitWorker /\ [][NextWorker]_vars

\* The promise of a fetch in flight settles: the runtime resumes
\* getSolunaData after each await.
SpecWorkerFair ==
  SpecWorker /\ WF_vars(\/ \E o \in Failures : GetSolunaData(o, << >>)
                        \/ \E d \in HijriDays : GetSolunaData("ok", TwoDigits(d)))

\* ----------------------------------------------------------------- claims

Has(i) == i \in DOMAIN buckets

\* C1: every bucket in the store holds between 0 and bucketSize tokens, in
\* every reachable state (bucketSize >= 1, non-decreasing clock).
TokensWithinBounds ==
  \A i \in DOMAIN buckets :
    /\ 0 <= buckets[i].tokens
    /\ buckets[i].tokens <= config.bucketSize

\* C1 witness: a sweep is running and a call has just refilled a bucket after a
\* wait that earned more tokens than the bucket can hold.
TokensClampedReached ==
  \E i \in DOMAIN buckets :
    /\ timers # {}
    /\ burst[i].called /\ ~burst[i].created /\ burst[i].prevAt >= 0
    /\ FloorDiv(now - burst[i].prevAt, config.interval) * config.tokensPerInterval
         > config.bucketSize
    /\ buckets[i].tokens = config.bucketSize - 1

\* C2: isAllowed for an identifier without a bucket returns true and, in that
\* one step, stores the bucket with bucketSize - 1 tokens and lastRefill = now;
\* getRemainingTokens asked right after the creating call answers
\* bucketSize - 1; no step puts a bucket holding other than bucketSize - 1
\* tokens into the store.
FirstRequestAdmitted ==
  [][\A i \in Ids :
       /\ (~Has(i) /\ IsAllowed(i)) =>
            /\ burst'[i].admitted = burst[i].admitted + 1
            /\ i \in DOMAIN buckets'
            /\ getRemainingTokens(buckets', i).value = config.bucketSize - 1
       /\ (~Has(i) /\ i \in DOMAIN buckets') =>
            buckets'[i] = [tokens |-> config.bucketSize - 1, lastRefill |-> now]
       /\ (burst[i].created /\ burst[i].admitted = 1 /\ ~burst[i].denied
             /\ GetRemainingTokens(i)) =>
            ret'.value = config.bucketSize - 1
    ]_vars

\* C2 witness: getRemainingTokens has answered bucketSize - 1 right after the
\* call that created the bucket.
FirstRequestReached ==
  /\ ret.op = "getRemainingTokens"
  /\ ret.value = config.bucketSize - 1
  /\ burst[ret.identifier].created
  /\ burst[ret.identifier].admitted = 1
  /\ ~burst[ret.identifier].denied

\* C3: from an identifier without a bucket and with no time passing, the first
\* bucketSize calls of isAllowed return true and the next one returns false.
BurstExhaustion ==
  \A i \in Ids :
    (burst[i].called /\ burst[i].created) =>
      /\ ~burst[i].late
      /\ burst[i].admitted <= config.bucketSize
      /\ burst[i].denied => burst[i].admitted = config.bucketSize

\* C3 witness: a burst on a new identifier was admitted bucketSize = 2 times
\* and then denied.
BurstExhaustionReached ==
  \E i \in Ids :
    /\ burst[i].called /\ burst[i].created /\ burst[i].denied
    /\ config.bucketSize = 2
    /\ burst[i].admitted = 2

\* The admissions a bucket exhausted at prevAt earns by the time now.
Earned(i) ==
  Min(config.bucketSize,
      FloorDiv(now - burst[i].prevAt, config.interval) * config.tokensPerInterval)

\* C4 as stated: after a denied call at t and no call until t + d, the calls at
\* t + d are admitted exactly min(bucketSize, floor(d / interval) *
\* tokensPerInterval) times before the first denial.
RefillAfterWaitingAsStated ==
  \A i \in Ids :
    (burst[i].called /\ burst[i].prevDenied) =>
      /\ ~burst[i].late
      /\ burst[i].admitted <= Earned(i)
      /\ burst[i].denied => burst[i].admitted = Earned(i)

\* C4 amended: the same, provided the bucket is still in the store at t + d
\* (no sweep pass removed it while the identifier was waiting).
RefillAfterWaiting ==
  \A i \in Ids :
    (burst[i].called /\ burst[i].prevDenied /\ ~burst[i].created) =>
      /\ ~burst[i].late
      /\ burst[i].admitted <= Earned(i)
      /\ burst[i].denied => burst[i].admitted = Earned(i)

\* C4 witness: an exhausted bucket waited exactly one interval, was then
\* admitted tokensPerInterval = 1 time (fewer than bucketSize) and denied.
RefillAfterWaitingReached ==
  \E i \in Ids :
    /\ burst[i].called /\ burst[i].prevDenied /\ ~burst[i].created
    /\ now - burst[i].prevAt = config.interval
    /\ config.tokensPerInterval < config.bucketSize
    /\ burst[i].admitted = config.tokensPerInterval
    /\ burst[i].denied

\* C5: of the isAllowed calls one identifier makes at one instant on a bucket
\* holding avail tokens after its refill, the first avail are admitted and the
\* others denied, and the bucket then holds avail minus the admitted count:
\* no token admits two calls.
AtomicRefillAndConsume ==
  \A i \in Ids :
    burst[i].called =>
      /\ ~burst[i].late
      /\ burst[i].admitted <= burst[i].avail
      /\ burst[i].denied => burst[i].admitted = burst[i].avail
      /\ Has(i)
      /\ buckets[i].tokens = burst[i].avail - burst[i].admitted
      /\ buckets[i].lastRefill = now

\* C5 witness: both identifiers have called at this instant, one of them on an
\* existing bucket refilled to 2 tokens, admitted twice and then denied.
AtomicRefillAndConsumeReached ==
  /\ \A j \in Ids : burst[j].called
  /\ \E i \in Ids :
       /\ ~burst[i].created
       /\ burst[i].avail = 2
       /\ burst[i].admitted = 2
       /\ burst[i].denied

\* The store as identifier a alone sees it.
Only(B, a) == MapRestrict(B, (DOMAIN B) \cap {a})

\* C6: a call for identifier a leaves the bucket of every other identifier b
\* as it was (present or not, tokens, lastRefill), and what it returns and
\* stores for a is what it would with a's bucket alone in the store; the empty
\* string is an identifier like any other.
Independence ==
  [][\A a \in Ids :
       LET Others == \A b \in Ids \ {a} :
                       /\ Has(b) <=> b \in DOMAIN buckets'
                       /\ Has(b) => buckets'[b] = buckets[b]
                       /\ burst'[b] = burst[b]
       IN /\ (burst'[a].called /\ IsAllowed(a)) =>
               /\ Others
               /\ burst'[a].admitted = burst[a].admitted + 1
                    <=> isAllowed(Only(buckets, a), now, a).allowed
               /\ buckets'[a] = isAllowed(Only(buckets, a), now, a).buckets[a]
          /\ (ret'.op = "getRemainingTokens" /\ ret'.identifier = a
                /\ GetRemainingTokens(a)) =>
               /\ Others
               /\ ret'.value = getRemainingTokens(Only(buckets, a), a).value
          /\ (ret'.op = "getResetTimeSeconds" /\ ret'.identifier = a
                /\ GetResetTimeSeconds(a)) =>
               /\ Others
               /\ ret'.value = getResetTimeSeconds(Only(buckets, a), a).value
    ]_vars

\* C6 witness: the empty identifier has exhausted its bucket at this instant
\* while the other identifier's bucket, filled earlier, still holds a token.
IndependenceReached ==
  /\ Has("") /\ Has("1.2.3.4")
  /\ burst[""].denied
  /\ buckets[""].tokens = 0
  /\ buckets["1.2.3.4"].tokens >= 1
  /\ buckets["1.2.3.4"].lastRefill < now


\* C7: when getResetTimeSeconds answers r > 0 at time q and the identifier
\* makes no isAllowed call before q + 1000 * r, its isAllowed call at
\* q + 1000 * r returns true; and for the reference configuration the answer
\* on an exhausted bucket is 2.
ResetHintSufficient ==
  /\ (/\ ret.op = "getResetTimeSeconds"
      /\ ret.value > 0
      /\ ret.follow # "none"
      /\ ret.followAt = ret.at + 1000 * ret.value) => ret.follow = "true"
  /\ resetTime(Reference, 0) = 2

\* C8: when getResetTimeSeconds answers 0, an isAllowed call for the same
\* identifier made next, at the same instant, returns true.
ResetZeroMeansAdmitted ==
  (/\ ret.op = "getResetTimeSeconds"
   /\ ret.value = 0
   /\ ret.follow # "none") => (ret.follow = "true" /\ ret.followAt = ret.at)

\* C8 witness: the answer was 0 for an identifier whose bucket existed, and the
\* isAllowed call that followed was admitted.
ResetZeroReached ==
  /\ ret.op = "getResetTimeSeconds"
  /\ ret.value = 0
  /\ ret.follow = "true"
  /\ ~burst[ret.identifier].created

\* C9: getRemainingTokens and getResetTimeSeconds change neither the store nor
\* the sweep timer; getRemainingTokens answers bucketSize without a bucket
\* and the stored tokens otherwise, however long ago the bucket was refilled.
PureReads ==
  [][\A i \in Ids :
       /\ (ret'.op = "getRemainingTokens" /\ ret'.identifier = i
             /\ GetRemainingTokens(i)) =>
            /\ UNCHANGED <<buckets, cleanupIntervalId, timers>>
            /\ ret'.value = IF Has(i) THEN buckets[i].tokens
                            ELSE config.bucketSize
       /\ (ret'.op = "getResetTimeSeconds" /\ ret'.identifier = i
             /\ GetResetTimeSeconds(i)) =>
            UNCHANGED <<buckets, cleanupIntervalId, timers>>
    ]_vars

\* C9 witness: getRemainingTokens has answered the stored count of a bucket
\* that a refill at this time would have raised.
PureReadsReached ==
  /\ ret.op = "getRemainingTokens"
  /\ Has(ret.identifier)
  /\ ret.value = buckets[ret.identifier].tokens
  /\ refill(buckets[ret.identifier], now) > buckets[ret.identifier].tokens

\* C10: a sweep pass at time now removes exactly the buckets with
\* now - lastRefill > 300000, leaves the others as they were and creates none.
SweepEvictionBoundary ==
  [][\A x \in timers :
       TimerFire(x) =>
         /\ DOMAIN buckets' \subseteq DOMAIN buckets
         /\ \A i \in DOMAIN buckets :
              /\ i \notin DOMAIN buckets' <=> now - buckets[i].lastRefill > 300000
              /\ i \in DOMAIN buckets' => buckets'[i] = buckets[i]
    ]_vars

\* C10 witness: a pass has removed the bucket of the empty identifier while
\* the other bucket, idle for exactly 300000 ms, is still in the store.
SweepEvictionReached ==
  /\ ~Has("") /\ burst[""].prevAt >= 0
  /\ Has("1.2.3.4")
  /\ now - buckets["1.2.3.4"].lastRefill = 300000

\* C11: the sweep is Stopped (cleanupIntervalId null, no timer) or Running
\* (cleanupIntervalId is the handle of the one active timer); startCleanup
\* while Running keeps that timer and its period, and from Stopped sets up
\* one timer with the period passed; stopCleanup leaves the sweep Stopped,
\* a no-op when it already was; neither changes a bucket.
SweepLifecycle ==
  [][ /\ Cardinality(timers') <= 1
      /\ (cleanupIntervalId' = 0) <=> (timers' = {})
      /\ \A x \in timers' : x.id = cleanupIntervalId'
      /\ \A p \in LifecyclePeriods :
           StartCleanup(p) =>
             /\ buckets' = buckets
             /\ IF cleanupIntervalId # 0
                THEN timers' = timers /\ cleanupIntervalId' = cleanupIntervalId
                ELSE \E x \in timers' : timers' = {x} /\ x.intervalMs = p
      /\ StopCleanup =>
           /\ buckets' = buckets
           /\ timers' = {} /\ cleanupIntervalId' = 0
    ]_vars

\* Running on the period a caller chose, with a bucket in the store.
SweepLifecycleReached ==
  /\ cleanupIntervalId # 0
  /\ \E x \in timers : x.id = cleanupIntervalId /\ x.intervalMs = 1000
  /\ buckets # << >>

\* C12: with a clock that never goes back, the lastRefill stored for an
\* identifier never decreases: no stored value is ahead of the clock, a call
\* on an existing bucket stores a value no smaller than the one it replaces,
\* and a bucket created (again, after a sweep pass removed the earlier one)
\* is stamped no earlier than the clock, hence no earlier than any value
\* stored before.
LastRefillMonotone ==
  [][ \A i \in DOMAIN buckets' :
        /\ buckets'[i].lastRefill <= now'
        /\ IF i \in DOMAIN buckets
           THEN buckets'[i].lastRefill >= buckets[i].lastRefill
           ELSE buckets'[i].lastRefill >= now
    ]_vars

\* A bucket created at this instant for an identifier whose earlier bucket,
\* last used at prevAt, was removed by a sweep pass.
LastRefillMonotoneReached ==
  \E i \in DOMAIN buckets :
    /\ burst[i].created
    /\ burst[i].prevAt >= 0
    /\ buckets[i].lastRefill > burst[i].prevAt

\* C13: for bucketSize >= 0 and any clock readings, a reading earlier than
\* lastRefill included, no bucket is stored with tokens < 0 and
\* getResetTimeSeconds never answers a negative number.
NoNegativeValues ==
  \A i \in DOMAIN buckets :
    /\ buckets[i].tokens >= 0
    /\ getResetTimeSeconds(buckets, i).value >= 0

\* What the request being served carries.
Carries(name) == name \in DOMAIN request.searchParams
AsksForMethods == Carries("methods") /\ request.searchParams["methods"] = "true"

\* C14: no upstream fetch is issued for a request before isAllowed was
\* called for its client (isAllowed leaves a bucket for every identifier it
\* is called with), and a request of an exhausted client causes none.
AdmissionBeforeUpstream ==
  upstream # << >> => request.ip \in DOMAIN buckets

\* C15: a request to an API path without an address parameter that does not
\* ask for the methods is answered 400 'Missing required parameter: address'
\* and causes no upstream fetch.
AddressRequired ==
  (/\ pc # "idle"
   /\ request.pathname # "/"
   /\ ~Carries("address")
   /\ ~AsksForMethods) =>
    /\ upstream = << >>
    /\ response.status = 400
    /\ response.body.error = "Missing required parameter: address"

\* The method parameter is a string of digits that names a number in 0..23.
NamesMethod(s, n) ==
  /\ s # << >>
  /\ \A j \in 1..Len(s) : \E v \in 0..9 : Digits[v + 1] = s[j]
  /\ DigitsValue(s) = n

\* C16: of the requests that reach the method check (an address is there
\* and the methods are not asked for), one without a method parameter is
\* fetched upstream with method 1, one whose parameter names a number in
\* 0..23 is fetched with that number, and every other one is answered 400
\* without an upstream fetch.
MethodValidation ==
  (pc # "idle" /\ ~AsksForMethods
     /\ searchParamsGet(request.searchParams, "address", "London") # "") =>
    LET FetchedWith(n) == upstream # << >> /\ upstream[1].url.method = n
        Refused == upstream = << >> /\ response.status = 400
    IN IF ~Carries("method") THEN FetchedWith(1)
       ELSE IF \E n \in 0..23 : NamesMethod(request.searchParams["method"], n)
       THEN \A n \in 0..23 :
              NamesMethod(request.searchParams["method"], n) => FetchedWith(n)
       ELSE Refused

\* The upstream attempts made so far follow the fallback discipline, F being
\* the ways in which an attempt counts as failed: the k-th fetch goes to the
\* k-th base URL; a further URL is fetched only after the one before it
\* failed; a good attempt is the last one and main answers 200 with the data
\* built from it; when the third attempt failed too, main answers 503 with
\* the message of that attempt's error; only the fetch in flight is pending.
FallbackDiscipline(F) ==
  LET n == Len(upstream)
  IN /\ n <= Len(BASE_URLS)
     /\ \A k \in 1..n :
          /\ upstream[k].url.base = BASE_URLS[k]
          /\ k > 1 => upstream[k - 1].outcome \in F
          /\ upstream[k].outcome = "pending" => k = n /\ pc = "fetching"
          /\ upstream[k].outcome = "ok" =>
               /\ k = n
               /\ pc = "responded"
               /\ response.status = 200
               /\ response.body.kind = "soluna"
     /\ (n = Len(BASE_URLS) /\ upstream[n].outcome \notin {"ok", "pending"}) =>
          /\ pc = "responded"
          /\ response.status = 503
          /\ response.body.error = ErrorOf(upstream[n].outcome).message

\* C17 as stated: an attempt fails by a network error, a non-OK status or
\* a JSON code other than 200, and the next URL is tried only after such a
\* failure.
FallbackAsStated == FallbackDiscipline({"networkError", "notOk", "badCode"})

\* C17: getSolunaData tries the three base URLs in their listed order, the
\* next one only after the attempt before it failed (network error, non-OK
\* status, a body that cannot be read as the expected JSON, or JSON code
\* other than 200); the first good attempt is returned and no later URL is
\* contacted; when all three fail the error of the third is thrown.
FallbackFirstSuccess == FallbackDiscipline(Failures)

\* All three attempts failed, each in another way, the first on its body.
FallbackFirstSuccessReached ==
  /\ Len(upstream) = 3
  /\ upstream[1].outcome = "badBody"
  /\ upstream[2].outcome = "notOk"
  /\ upstream[3].outcome = "networkError"
  /\ response.status = 503
  /\ response.body.error = "fetch failed"

\* The moon data main sent follows the table of phases, New Moon being
\* returned exactly on the days newMoon: it echoes the Hijri day d of the
\* good attempt's body; First Quarter is returned exactly on 5..11, Full
\* Moon on 12..18, Last Quarter on 19..25.
MoonPhaseTable(newMoon) ==
  (pc = "responded" /\ response.status = 200 /\ response.body.kind = "soluna") =>
    LET moon == response.body.moon
        d == CHOOSE x \in HijriDays : TwoDigits(x) = upstream[Len(upstream)].day
    IN /\ moon.hijriDay = d
       /\ d \in 1..4 => moon.phase = "New Moon"
       /\ moon.phase = "New Moon" <=> d \in newMoon
       /\ moon.phase = "First Quarter" <=> d \in 5..11
       /\ moon.phase = "Full Moon" <=> d \in 12..18
       /\ moon.phase = "Last Quarter" <=> d \in 19..25

DeniedCheckFrame ==
  [][ \A i \in DOMAIN buckets :
        IsAllowed(i) =>
          LET b == buckets[i]
              elapsed == now - b.lastRefill
              refilled == Min(config.bucketSize,
                              b.tokens + FloorDiv(elapsed, config.interval)
                                         * config.tokensPerInterval)
          IN /\ buckets'[i].lastRefill = now
             /\ refilled < 1 =>
                  /\ buckets'[i].tokens = refilled
                  /\ burst'[i].denied
                  /\ burst'[i].admitted = burst[i].admitted
    ]_vars

\* A call denied less than one interval after the call before it: the
\* bucket is still empty and its lastRefill is the time of the denied call.
DeniedCheckFrameReached ==
  \E i \in DOMAIN buckets :
    /\ burst[i].denied
    /\ burst[i].admitted = 0
    /\ burst[i].prevAt >= 0
    /\ now - burst[i].prevAt < config.interval
    /\ buckets[i] = [tokens |-> 0, lastRefill |-> now]

\* C20: in the reference configuration the admitted calls of an identifier
\* inside any window of length T ms, sweep passes included, number at most
\* 10 + floor(T / 2000): stated for every window that starts at an instant
\* the run visits and ends at the current one.  For T = 60000 the bound is 40.
RateBound ==
  /\ win.open =>
       win.count <= Reference.bucketSize
                    + FloorDiv(now - win.start, Reference.interval)
                      * Reference.tokensPerInterval
  /\ Reference.bucketSize + FloorDiv(60000, Reference.interval) = 40

\* A window of 301000 ms holding two bursts of ten: the bucket emptied at
\* the window's start was removed by a sweep pass and created again.
RateBoundReached ==
  /\ win.open
  /\ now - win.start = 301000
  /\ win.count = 20
  /\ burst[win.identifier].created

\* C21: a sweep pass that finds an identifier's bucket stale removes it; as
\* long as the identifier has no bucket, getRemainingTokens answers
\* bucketSize, getResetTimeSeconds answers 0 and an isAllowed call made now
\* returns true and leaves the bucket (bucketSize - 1, now); every bucket in
\* the store, recreated ones included, keeps 0 <= tokens <= bucketSize.
EvictionResets ==
  [][ /\ \A i \in DOMAIN buckets :
           (/\ now - buckets[i].lastRefill > staleThreshold
            /\ \E x \in timers : TimerFire(x)) => i \notin DOMAIN buckets'
      /\ \A i \in Ids \ DOMAIN buckets' :
           /\ getRemainingTokens(buckets', i).value = config.bucketSize
           /\ getResetTimeSeconds(buckets', i).value = 0
           /\ isAllowed(buckets', now', i).allowed
           /\ isAllowed(buckets', now', i).buckets[i]
                = [tokens |-> config.bucketSize - 1, lastRefill |-> now']
      /\ \A i \in DOMAIN buckets' :
           buckets'[i].tokens \in 0..config.bucketSize
    ]_vars

\* The first call after a sweep pass removed the identifier's exhausted
\* bucket: it created the bucket anew and was admitted.
EvictionResetsReached ==
  \E i \in DOMAIN buckets :
    /\ burst[i].created
    /\ burst[i].prevDenied
    /\ burst[i].admitted = 1
    /\ buckets[i] = [tokens |-> config.bucketSize - 1, lastRefill |-> now]

\* Identifier i has a bucket that has been idle for more than the threshold.
Stale(i) == Has(i) /\ now - buckets[i].lastRefill > staleThreshold

\* C22: while the sweep is Running and its timer keeps firing, a bucket
\* idle beyond the threshold does not stay in the store: it is removed,
\* unless its identifier calls isAllowed again or the sweep is stopped
\* first.
Reclamation ==
  \A i \in Ids :
    (Stale(i) /\ cleanupIntervalId # 0) ~> (~Stale(i) \/ cleanupIntervalId = 0)

\* The sweep is Running and the store is empty again: the bucket of an
\* identifier that called earlier is gone.
ReclamationReached ==
  /\ cleanupIntervalId # 0
  /\ buckets = << >>
  /\ \E i \in Ids : ~burst[i].called /\ burst[i].prevAt >= 0

\* C23: a bucket leaves the store only in a sweep pass fired by the timer of
\* a Running sweep; while the sweep is Stopped no pass fires and no bucket
\* is removed, however stale; the sweep becomes Running only in a
\* startCleanup call.
RemovalOnlyBySweep ==
  [][ /\ (\E i \in DOMAIN buckets : i \notin DOMAIN buckets') =>
           /\ cleanupIntervalId # 0
           /\ \E x \in timers : x.id = cleanupIntervalId /\ TimerFire(x)
      /\ cleanupIntervalId = 0 =>
           /\ \A x \in timers : ~TimerFire(x)
           /\ DOMAIN buckets \subseteq DOMAIN buckets'
      /\ (cleanupIntervalId = 0 /\ cleanupIntervalId' # 0) =>
           \E p \in LifecyclePeriods : StartCleanup(p)
    ]_vars

\* The sweep is Stopped and a bucket idle beyond the threshold is still in
\* the store.
RemovalOnlyBySweepReached ==
  /\ cleanupIntervalId = 0
  /\ timers = {}
  /\ \E i \in Ids : Stale(i)

\* C24: a request for the path '/' that carries no query parameter is
\* answered 200 with content-type text/html and causes no upstream fetch.
LandingAtRoot ==
  (pc # "idle" /\ request.pathname = "/" /\ request.searchParams = << >>) =>
    /\ upstream = << >>
    /\ response.status = 200
    /\ response.contentType = "text/html"

\* The time of the identifier's latest isAllowed call (-1 for never).
LastCall(i) == IF burst[i].called THEN now ELSE burst[i].prevAt

\* C25: an isAllowed call that finds the identifier's bucket exhausted
\* (tokens < 1) less than interval ms after the identifier's previous call is
\* denied and leaves tokens as they were, however long ago the bucket was
\* exhausted; a call that is admitted either found no bucket (first call or
\* eviction), found a token, or came at least interval ms after the previous
\* call.
PollingStarves ==
  [][ \A i \in Ids :
        (burst'[i].called /\ IsAllowed(i)) =>
          LET gap == now - LastCall(i)
              admitted == burst'[i].admitted > burst[i].admitted
          IN /\ (Has(i) /\ buckets[i].tokens < 1 /\ gap < config.interval) =>
                  /\ ~admitted
                  /\ burst'[i].denied
                  /\ buckets'[i].tokens = buckets[i].tokens
             /\ admitted =>
                  \/ ~Has(i)
                  \/ buckets[i].tokens >= 1
                  \/ (LastCall(i) >= 0 /\ gap >= config.interval)
    ]_vars

\* A bucket exhausted a whole interval ago and polled at shorter gaps since:
\* the call now is denied like the one before it.
PollingStarvesReached ==
  \E i \in DOMAIN buckets :
    /\ burst[i].denied /\ burst[i].admitted = 0
    /\ burst[i].prevDenied
    /\ now - burst[i].prevAt < config.interval
    /\ now >= config.interval
    /\ buckets[i].tokens = 0

\* C26: in the reference configuration a limiter whose sweep runs at any
\* moments and a limiter that never sweeps, given the same timed isAllowed
\* calls, have returned the same verdict on every call so far; their stores
\* differ only in buckets the sweep removed, and an identifier's removed
\* bucket, had it been kept, would be stale still.
SweepUnobservable ==
  twin.paired =>
    /\ twin.agreed
    /\ DOMAIN buckets \subseteq DOMAIN twin.buckets
    /\ \A i \in DOMAIN twin.buckets :
         IF Has(i)
         THEN buckets[i] = twin.buckets[i]
         ELSE now - twin.buckets[i].lastRefill > staleThreshold

\* A bucket emptied, removed by a sweep pass and created again by the
\* call made now, which the never-swept limiter answered from the old
\* bucket: both hold the same bucket again.
SweepUnobservableReached ==
  /\ twin.paired /\ twin.agreed
  /\ \E i \in DOMAIN buckets :
       /\ burst[i].created /\ burst[i].prevDenied
       /\ burst[i].admitted = 1
       /\ twin.buckets[i] = buckets[i]

\* What getRemainingTokens(i) would answer in the current state.
Promised(i) == getRemainingTokens(buckets, i).value

\* C27: getRemainingTokens(i) answers Promised(i); an isAllowed(i) call made
\* while Promised(i) >= 1 returns true; and no step lowers Promised(i), except
\* that an admitted isAllowed(i) call lowers it by at most one: sweep passes,
\* clock advances, queries, lifecycle calls and calls for other identifiers
\* leave it or raise it.  Hence the k calls after an answer k all return true.
NeverOverReports ==
  [][ \A i \in Ids :
        LET admitted == IF burst'[i].called
                        THEN burst'[i].admitted - burst[i].admitted
                        ELSE 0
        IN /\ admitted \in {0, 1}
           /\ Promised(i)' >= Promised(i) - admitted
           /\ (burst'[i].called /\ Promised(i) >= 1 /\ IsAllowed(i)) =>
                admitted = 1
           /\ (ret'.op = "getRemainingTokens" /\ ret'.identifier = i
                 /\ GetRemainingTokens(i)) =>
                ret'.value = Promised(i)
    ]_vars

\* getRemainingTokens has answered k >= 1 in the middle of a burst, for a
\* bucket that a sweep pass may remove before the next call.
NeverOverReportsReached ==
  /\ ret.op = "getRemainingTokens"
  /\ ret.value >= 1
  /\ Has(ret.identifier)
  /\ ret.value = buckets[ret.identifier].tokens
  /\ burst[ret.identifier].admitted >= 1
  /\ timers # {}

\* Every upstream attempt was made and failed.
AllFailed ==
  /\ Len(upstream) = Len(BASE_URLS)
  /\ \A k \in 1..Len(upstream) : upstream[k].outcome \in Failures

\* What holds of a request in every state of its handling.
Outcomes ==
  pc # "idle" =>
    /\ pc = "fetching" => response = NoResponse /\ upstream # << >>
    /\ pc = "responded" => response.status \in {200, 400, 503}
    /\ AsksForMethods =>
         /\ pc = "responded" /\ upstream = << >>
         /\ response.status = 200
         /\ response.contentType = "application/json"
         /\ response.body.kind = "methods"
    /\ AllFailed <=> (pc = "responded" /\ response.status = 503)
    /\ AllFailed =>
         /\ response.contentType = "application/json"
         /\ response.body.status = 503
         /\ response.body.error = ErrorOf(upstream[Len(upstream)].outcome).message

\* C28: a request with methods=true is answered 200 with the method list and
\* no upstream fetch, whatever its address and method parameters; a request
\* whose three upstream attempts all failed is answered 503 with a JSON body
\* carrying the message of the last attempt's error, and 503 is answered in
\* no other case; a response once returned is the only one; and a handler
\* awaiting a fetch, every failure of which is caught, returns a response.
HandlerOutcomes ==
  /\ []Outcomes
  /\ [][pc = "responded" => pc' = "responded" /\ response' = response]_vars
  /\ (pc = "fetching") ~> (pc = "responded")

\* A request with methods=true, an empty address and a method that names no
\* calculation method has been answered with the method list.
HandlerOutcomesReached ==
  /\ pc = "responded" /\ AsksForMethods
  /\ Carries("address") /\ request.searchParams["address"] = ""
  /\ Carries("method") /\ ~InMethods(parseInt(request.searchParams["method"]))
  /\ response.status = 200 /\ response.body.kind = "methods"

====
